---- MODULE Spec2Model ----
(***************************************************************************)
(* Model of the merge engine (utils.py) and the analysis agent (agent.py)  *)
(* of ai-youtube-agent.                                                    *)
(*                                                                         *)
(* Python dicts and lists are objects with identity: two names can refer   *)
(* to one object, and a write through one name is seen through the other.  *)
(* The model therefore keeps a heap of objects and passes references.      *)
(***************************************************************************)
EXTENDS Integers, Sequences, FiniteSets, TLC

VARIABLES
    heap,              \* the objects, by address (1..Len(heap))
    heap0,             \* the heap as it was when the last call was made
    args,              \* the values the caller holds and passes
    op,                \* the last operation called ("init": none yet)
    sources,           \* merge_data_sources: the sources passed, as indexes of args
    result,            \* what the last merge call returned
    raised,            \* the exception the last call raised, or "none"
    creator,           \* the creator record handed to analyze_creator
    now_year,          \* datetime.now().year
    analysis,          \* what the last analyze_creator call returned
    analysis_history,  \* ContentAnalysisAgent.analysis_history
    last_active,       \* ContentAnalysisAgent.last_active (the call that set it)
    files,             \* the files written, by path: the lines of each
    calls              \* the agent calls made, and the analyze_creator calls that returned

vars == <<heap, heap0, args, op, sources, result, raised,
          creator, now_year, analysis, analysis_history, last_active, files,
          calls>>

(***************************************************************************)
(* Bounds of the model.                                                    *)
(***************************************************************************)
MaxSize == 3        \* nodes of an input structure of the merge engine
MaxAssocSize == 2   \* nodes of each of the three structures of a double merge
MaxSources == 2     \* sources passed to merge_data_sources
MaxEvents == 2      \* life events of a creator record
MaxBusinesses == 2  \* businesses of a creator record
YearSpan == 2       \* years between the earliest year admitted and the current year

Keys == {"x", "y"}
AssocKeys == {"x", "y", "z"}
KeyOrder == <<"x", "y", "z", "a_b">>
Scalars == {1, 2}
ListPool == {<<>>, <<1>>, <<2>>}

(***************************************************************************)
(* Python values.  A scalar is held by value, a dict or a list by          *)
(* reference to a heap object.                                             *)
(***************************************************************************)
Scalar(n) == [t |-> "s", v |-> n]
Ref(a) == [t |-> "r", v |-> a]
NoneValue == Scalar(0)

EmptyMap == [k \in {} |-> NoneValue]
DictObj(ks, m) == [kind |-> "dict", keys |-> ks, val |-> m, elems |-> <<>>]
ListObj(es) == [kind |-> "list", keys |-> <<>>, val |-> EmptyMap, elems |-> es]

IsDict(h, v) == v.t = "r" /\ h[v.v].kind = "dict"
IsList(h, v) == v.t = "r" /\ h[v.v].kind = "list"

\* base[key] = value: a new key goes last, a present key keeps its place
SetItem(h, a, key, value) ==
    LET o == h[a]
        ks == IF key \in DOMAIN o.val THEN o.keys ELSE Append(o.keys, key)
    IN [h EXCEPT ![a] = DictObj(ks, [k \in DOMAIN o.val \cup {key} |->
                                        IF k = key THEN value ELSE o.val[k]])]

(***************************************************************************)
(* The value of a structure, as Python's == compares it: a dict by its     *)
(* key set and the values under the keys, a list by its elements in order. *)
(***************************************************************************)
SMap(n) == [t |-> "s", v |-> n, m |-> EmptyMap, e |-> <<>>]
DMap(m) == [t |-> "d", v |-> 0, m |-> m, e |-> <<>>]
LMap(e) == [t |-> "l", v |-> 0, m |-> EmptyMap, e |-> e]

RECURSIVE Val(_, _)
Val(h, v) ==
    IF v.t = "s" THEN SMap(v.v)
    ELSE LET o == h[v.v] IN
         IF o.kind = "dict"
         THEN DMap([k \in DOMAIN o.val |-> Val(h, o.val[k])])
         ELSE LMap([i \in 1..Len(o.elems) |-> Val(h, o.elems[i])])

(***************************************************************************)
(* utils.py: merge_content_creator_info                                    *)
(***************************************************************************)
RECURSIVE recursive_merge(_, _, _), MergeItems(_, _, _, _)

\* a variant that returns update + base
ListConcatSwapped(h, base, update) ==
    [heap |-> Append(h, ListObj(h[update.v].elems \o h[base.v].elems)),
     result |-> Ref(Len(h) + 1)]
\* return base + update: a new list, base's elements then update's
ListConcat(h, base, update) ==
    [heap |-> Append(h, ListObj(h[base.v].elems \o h[update.v].elems)),
     result |-> Ref(Len(h) + 1)]

\* a variant that returns base
BaseWins(h, base, update) == [heap |-> h, result |-> base]
\* return update
UpdateWins(h, base, update) == [heap |-> h, result |-> update]

\* a variant with "return base" indented into the loop: only the first item of
\* update is merged
MergeItemsFirstOnly(h, b, u, i) ==
    IF i > Len(h[u].keys) \/ i > 1 THEN h
    ELSE LET key == h[u].keys[i]
             val == h[u].val[key]
         IN IF key \in DOMAIN h[b].val
            THEN LET r == recursive_merge(h, h[b].val[key], val)
                 IN MergeItems(SetItem(r.heap, b, key, r.result), b, u, i + 1)
            ELSE MergeItems(SetItem(h, b, key, val), b, u, i + 1)

\* for key, val in update.items(): the body of the loop from item i on
MergeItems(h, b, u, i) ==
    IF i > Len(h[u].keys) THEN h
    ELSE LET key == h[u].keys[i]
             val == h[u].val[key]
         IN IF key \in DOMAIN h[b].val
            THEN LET r == recursive_merge(h, h[b].val[key], val)
                 IN MergeItems(SetItem(r.heap, b, key, r.result), b, u, i + 1)
            ELSE MergeItems(SetItem(h, b, key, val), b, u, i + 1)

recursive_merge(h, base, update) ==
    IF IsDict(h, base) /\ IsDict(h, update)
    THEN [heap |-> MergeItems(h, base.v, update.v, 1), result |-> base]
    ELSE IF IsList(h, base) /\ IsList(h, update)
    THEN ListConcat(h, base, update)
    ELSE UpdateWins(h, base, update)

\* a variant that starts from merged = {} in place of the copy
FreshEmpty(h, v) == Append(h, DictObj(<<>>, EmptyMap))
\* source1.copy(): a shallow copy, a new object holding the same values
ShallowCopy(h, v) == Append(h, h[v.v])

merge_content_creator_info(h, source1, source2) ==
    IF source1.t = "s"
    THEN [heap |-> h, result |-> NoneValue, raised |-> "AttributeError"]
    ELSE LET r == recursive_merge(ShallowCopy(h, source1), Ref(Len(h) + 1), source2)
         IN [heap |-> r.heap, result |-> r.result, raised |-> "none"]

(***************************************************************************)
(* utils.py: ensure_dict, and agent.py: merge_data_sources                 *)
(***************************************************************************)
ensure_dict_raises(h, data) == ~IsDict(h, data)

RECURSIVE MergeSources(_, _, _, _)
\* for source in sources: from source i on, with merged so far
MergeSources(h, merged, srcs, i) ==
    IF i > Len(srcs) THEN [heap |-> h, result |-> merged, raised |-> "none"]
    ELSE IF ensure_dict_raises(h, srcs[i])
    THEN [heap |-> h, result |-> NoneValue, raised |-> "ValueError"]
    ELSE LET r == merge_content_creator_info(h, merged, srcs[i])
         IN MergeSources(r.heap, r.result, srcs, i + 1)

merge_data_sources(h, srcs) ==
    MergeSources(Append(h, DictObj(<<>>, EmptyMap)), Ref(Len(h) + 1), srcs, 1)

(***************************************************************************)
(* The structures a caller passes: scalars, lists of scalars and dicts of  *)
(* structures, by number of nodes.                                         *)
(***************************************************************************)
RECURSIVE SumSizes(_, _), TreeSize(_)
TreeSize(t) ==
    IF t.t = "d" THEN 1 + SumSizes(t.m, DOMAIN t.m) ELSE 1
SumSizes(m, D) ==
    IF D = {} THEN 0
    ELSE LET k == CHOOSE k \in D : TRUE IN TreeSize(m[k]) + SumSizes(m, D \ {k})

Leaves(withLists) ==
    {SMap(n) : n \in Scalars}
        \cup (IF withLists THEN {LMap([i \in DOMAIN l |-> SMap(l[i])]) : l \in ListPool}
              ELSE {})

RECURSIVE TreesUpTo(_, _, _)
TreesUpTo(n, withLists, keys) ==
    IF n = 0 THEN {}
    ELSE IF n = 1 THEN Leaves(withLists) \cup {DMap(EmptyMap)}
    ELSE LET T == TreesUpTo(n - 1, withLists, keys)
             F == UNION {[D -> T] : D \in SUBSET keys \ {{}}}
         IN T \cup {DMap(m) : m \in {f \in F : 1 + SumSizes(f, DOMAIN f) <= n}}

MappingsUpTo(n) == {t \in TreesUpTo(n, FALSE, AssocKeys) : t.t = "d"}

PairwiseDisjoint(ta, tb, tc) ==
    /\ DOMAIN ta.m \cap DOMAIN tb.m = {}
    /\ DOMAIN ta.m \cap DOMAIN tc.m = {}
    /\ DOMAIN tb.m \cap DOMAIN tc.m = {}

\* the keys of D in the order a literal would list them
RECURSIVE KeysIn(_, _)
KeysIn(D, i) ==
    IF i > Len(KeyOrder) THEN <<>>
    ELSE (IF KeyOrder[i] \in D THEN <<KeyOrder[i]>> ELSE <<>>) \o KeysIn(D, i + 1)

\* builds the objects of structure t on heap h; the value that denotes it
RECURSIVE Build(_, _), BuildAll(_, _, _, _)
BuildAll(h, ts, i, acc) ==
    IF i > Len(ts) THEN [heap |-> h, values |-> acc]
    ELSE LET r == Build(h, ts[i])
         IN BuildAll(r.heap, ts, i + 1, Append(acc, r.value))
Build(h, t) ==
    IF t.t = "s" THEN [heap |-> h, value |-> Scalar(t.v)]
    ELSE IF t.t = "l"
    THEN LET r == BuildAll(h, t.e, 1, <<>>)
         IN [heap |-> Append(r.heap, ListObj(r.values)), value |-> Ref(Len(r.heap) + 1)]
    ELSE LET ks == KeysIn(DOMAIN t.m, 1)
             r == BuildAll(h, [i \in 1..Len(ks) |-> t.m[ks[i]]], 1, <<>>)
             at == [k \in DOMAIN t.m |-> CHOOSE i \in 1..Len(ks) : ks[i] = k]
         IN [heap |-> Append(r.heap, DictObj(ks, [k \in DOMAIN t.m |-> r.values[at[k]]])),
             value |-> Ref(Len(r.heap) + 1)]

(***************************************************************************)
(* The agent, before any call.                                             *)
(***************************************************************************)
NoCreator == [kind |-> "dict", data |-> EmptyMap]
NoAnalysis == [raised |-> "none"]
NoFiles == [p \in {} |-> <<>>]
NoCalls == [made |-> 0, returned |-> 0]

AgentInit ==
    /\ creator = NoCreator
    /\ now_year = 0
    /\ analysis = NoAnalysis
    /\ analysis_history = <<>>
    /\ last_active = "init"
    /\ files = NoFiles
    /\ calls = NoCalls

InitMerge ==
    /\ \E ta \in TreesUpTo(MaxSize, TRUE, Keys), tb \in TreesUpTo(MaxSize, TRUE, Keys) :
          LET r == BuildAll(<<>>, <<ta, tb>>, 1, <<>>)
          IN heap = r.heap /\ args = r.values
    /\ heap0 = heap
    /\ op = "init"
    /\ sources = <<>>
    /\ result = NoneValue
    /\ raised = "none"
    /\ AgentInit

\* merge_content_creator_info(args[1], args[2])
MergeContentCreatorInfo ==
    /\ op = "init"
    /\ LET r == merge_content_creator_info(heap, args[1], args[2])
       IN /\ heap' = r.heap
          /\ result' = r.result
          /\ raised' = r.raised
    /\ heap0' = heap
    /\ op' = "merge_content_creator_info"
    /\ UNCHANGED <<files, calls>>
    /\ UNCHANGED <<args, sources, creator, now_year, analysis, analysis_history,
                   last_active>>

NextMerge == MergeContentCreatorInfo

SpecMerge == InitMerge /\ [][NextMerge]_vars

(***************************************************************************)
(* merge_data_sources over the structures the caller holds.                *)
(***************************************************************************)
SourceLists == UNION {[1..n -> 1..2] : n \in 0..MaxSources}

\* agent.merge_data_sources(*[args[i] for i in srcs])
MergeDataSources ==
    /\ op = "init"
    /\ \E srcs \in SourceLists :
          LET r == merge_data_sources(heap, [i \in 1..Len(srcs) |-> args[srcs[i]]])
          IN /\ heap' = r.heap
             /\ result' = r.result
             /\ raised' = r.raised
             /\ sources' = srcs
    /\ heap0' = heap
    /\ op' = "merge_data_sources"
    /\ UNCHANGED files
    /\ calls' = [calls EXCEPT !.made = @ + 1]
    /\ last_active' = "merge_data_sources"
    /\ UNCHANGED <<args, creator, now_year, analysis, analysis_history>>

NextSources == MergeDataSources

SpecSources == InitMerge /\ [][NextSources]_vars

(***************************************************************************)
(* The two ways of merging three mappings whose key sets are pairwise      *)
(* disjoint: merge(merge(a, b), c) first, as the left operand of ==, then  *)
(* merge(a, merge(b, c)).  The left result is kept as args[4].             *)
(***************************************************************************)
InitAssoc ==
    /\ \E ta \in MappingsUpTo(MaxAssocSize), tb \in MappingsUpTo(MaxAssocSize),
          tc \in MappingsUpTo(MaxAssocSize) :
          /\ PairwiseDisjoint(ta, tb, tc)
          /\ LET r == BuildAll(<<>>, <<ta, tb, tc>>, 1, <<>>)
             IN heap = r.heap /\ args = r.values
    /\ heap0 = heap
    /\ op = "init"
    /\ sources = <<>>
    /\ result = NoneValue
    /\ raised = "none"
    /\ AgentInit

\* left = merge(merge(args[1], args[2]), args[3])
MergeLeftNested ==
    /\ op = "init"
    /\ LET ab == merge_content_creator_info(heap, args[1], args[2])
           r == merge_content_creator_info(ab.heap, ab.result, args[3])
       IN /\ heap' = r.heap
          /\ args' = Append(args, r.result)
          /\ raised' = IF ab.raised # "none" THEN ab.raised ELSE r.raised
    /\ heap0' = heap
    /\ op' = "left"
    /\ UNCHANGED <<files, calls>>
    /\ UNCHANGED <<sources, result, creator, now_year, analysis, analysis_history,
                   last_active>>

\* right = merge(args[1], merge(args[2], args[3]))
MergeRightNested ==
    /\ op = "left"
    /\ raised = "none"
    /\ LET bc == merge_content_creator_info(heap, args[2], args[3])
           r == merge_content_creator_info(bc.heap, args[1], bc.result)
       IN /\ heap' = r.heap
          /\ result' = r.result
          /\ raised' = IF bc.raised # "none" THEN bc.raised ELSE r.raised
    /\ op' = "right"
    /\ UNCHANGED <<files, calls>>
    /\ UNCHANGED <<heap0, args, sources, creator, now_year, analysis, analysis_history,
                   last_active>>

NextAssoc == MergeLeftNested \/ MergeRightNested

SpecAssoc == InitAssoc /\ [][NextAssoc]_vars

(***************************************************************************)
(* models.py: the records the analysis reads.  A record is the dict of its *)
(* fields (what .dict() gives for a validated object); lists are           *)
(* sequences of such dicts.                                                *)
(***************************************************************************)
LifeEventMinYear == 1900
CurrentYear == LifeEventMinYear + YearSpan
Years == LifeEventMinYear..CurrentYear
Statuses == {"active", "inactive", "sold", "acquired"}
ListKeys == {"values", "challenges", "achievements", "life_events", "businesses"}

\* LifeEventObject: year is required, 1900 <= year <= the current year
ValidLifeEvent(e, now) ==
    /\ DOMAIN e = {"name", "year"}
    /\ e.year >= LifeEventMinYear
    /\ e.year <= now

\* BusinessObject: status is one of the four, "active" when not given
ValidBusiness(b) ==
    /\ DOMAIN b = {"name", "annual_revenue", "status"}
    /\ b.annual_revenue >= 0
    /\ b.status \in Statuses

\* ContentCreatorInfo: every list is present (empty by default) and holds
\* validated objects
ValidCreator(c, now) ==
    /\ c.kind = "model"
    /\ DOMAIN c.data = ListKeys
    /\ \A i \in 1..Len(c.data["life_events"]) : ValidLifeEvent(c.data["life_events"][i], now)
    /\ \A i \in 1..Len(c.data["businesses"]) : ValidBusiness(c.data["businesses"][i])
    /\ \A i \in 1..Len(c.data["values"]) : "name" \in DOMAIN c.data["values"][i]

(***************************************************************************)
(* agent.py: analyze_creator and its four parts.  A quotient is kept as    *)
(* the pair of its numerator and denominator.                              *)
(***************************************************************************)
Frac(n, d) == [num |-> n, den |-> d]
FracEq(a, b) == a.num * b.den = b.num * a.den

\* d.get(key, default)
Get(d, key, default) == IF key \in DOMAIN d THEN d[key] ELSE default

\* ensure_dict: the dict itself, or the .dict() of a model
ensure_dict(c) == c.data

RECURSIVE SumOver(_, _, _), CountIf(_, _, _)
SumOver(s, key, default) ==
    IF s = <<>> THEN 0 ELSE Get(Head(s), key, default) + SumOver(Tail(s), key, default)
CountIf(s, key, default) ==
    IF s = <<>> THEN 0
    ELSE (IF Get(Head(s), key, default) = TRUE THEN 1 ELSE 0) + CountIf(Tail(s), key, default)

_calculate_basic_stats(data) ==
    [total_life_events |-> Len(Get(data, "life_events", <<>>)),
     total_challenges |-> Len(Get(data, "challenges", <<>>)),
     total_achievements |-> Len(Get(data, "achievements", <<>>)),
     business_count |-> Len(Get(data, "businesses", <<>>))]

_analyze_business(data) ==
    LET businesses == Get(data, "businesses", <<>>)
    IN [total_businesses |-> Len(businesses),
        active_businesses |-> CountIf(businesses, "is_active", FALSE),
        average_revenue |-> IF businesses # <<>>
                            THEN Frac(SumOver(businesses, "revenue", 0), Len(businesses))
                            ELSE Frac(0, 1)]

\* the exception _assess_values raises, or "none": v["name"] needs the key
ValuesRaises(data) ==
    LET values == Get(data, "values", <<>>)
    IN IF \E i \in 1..Len(values) : "name" \notin DOMAIN values[i]
       THEN "KeyError" ELSE "none"

_assess_values(data) ==
    LET values == Get(data, "values", <<>>)
    IN [core_values |-> [i \in 1..Len(values) |-> values[i]["name"]],
        value_consistency_score |-> Frac(Len(values), 10)]

\* sorted(events, key=lambda x: x.get("year", 0)): a stable sort
RECURSIVE InsertByYear(_, _), SortedByYear(_)
InsertByYear(s, e) ==
    IF s = <<>> THEN <<e>>
    ELSE IF Get(e, "year", 0) < Get(Head(s), "year", 0) THEN <<e>> \o s
    ELSE <<Head(s)>> \o InsertByYear(Tail(s), e)
SortedByYear(s) ==
    IF s = <<>> THEN <<>>
    ELSE InsertByYear(SortedByYear(SubSeq(s, 1, Len(s) - 1)), s[Len(s)])

\* the exception _analyze_timelines raises, or "none"
TimelineRaises(data, now) ==
    LET events == SortedByYear(Get(data, "life_events", <<>>))
    IN IF events = <<>> THEN "none"
       ELSE IF "year" \notin DOMAIN events[1] THEN "KeyError"
       ELSE IF now - events[1]["year"] = 0 THEN "ZeroDivisionError"
       ELSE "none"

\* career_start is <<>> for None, <<year>> for a year
_analyze_timelines(data, now) ==
    LET events == SortedByYear(Get(data, "life_events", <<>>))
    IN [career_start |-> IF events # <<>> THEN <<events[1]["year"]>> ELSE <<>>,
        milestone_frequency |-> IF events # <<>>
                                THEN Frac(Len(events), now - events[1]["year"])
                                ELSE Frac(0, 1)]

analyze_creator(c, now) ==
    LET data == ensure_dict(c)
    IN IF ValuesRaises(data) # "none"
       THEN [raised |-> ValuesRaises(data)]
       ELSE IF TimelineRaises(data, now) # "none"
       THEN [raised |-> TimelineRaises(data, now)]
       ELSE [raised |-> "none",
             basic_stats |-> _calculate_basic_stats(data),
             business_analysis |-> _analyze_business(data),
             values_assessment |-> _assess_values(data),
             timeline_analysis |-> _analyze_timelines(data, now)]

(***************************************************************************)
(* The creator records handed to the agent: validated models, and raw      *)
(* dicts as the caller may build them (a key may be absent, an event may   *)
(* lack its year, a business is described by is_active and revenue).       *)
(***************************************************************************)
SeqsUpTo(S, n) == UNION {[1..k -> S] : k \in 0..n}

ValidEvents == {[name |-> "event", year |-> y] : y \in Years}
RawEvents == ValidEvents \cup {[name |-> "event"]}
ValidBusinesses == {[name |-> "shop", annual_revenue |-> 100, status |-> s] : s \in Statuses}
RawBusinesses == {[name |-> "shop", revenue |-> 5000, is_active |-> TRUE],
                  [name |-> "shop", revenue |-> 1000, is_active |-> FALSE]}
ValueLists == {<<>>, <<[name |-> "A"]>>, <<[name |-> "A"], [name |-> "B"]>>}
OtherLists == {<<>>, <<[year |-> CurrentYear]>>}

CreatorData(ev, bu, va, ch, ac) ==
    [k \in ListKeys |->
        IF k = "life_events" THEN ev
        ELSE IF k = "businesses" THEN bu
        ELSE IF k = "values" THEN va
        ELSE IF k = "challenges" THEN ch
        ELSE ac]

\* a raw dict leaves out the keys it has nothing for
WithoutEmpty(d) == [k \in {kk \in DOMAIN d : d[kk] # <<>>} |-> d[k]]

Models ==
    {[kind |-> "model", data |-> CreatorData(ev, bu, va, ch, ac)] :
        ev \in SeqsUpTo(ValidEvents, MaxEvents),
        bu \in SeqsUpTo(ValidBusinesses, MaxBusinesses),
        va \in ValueLists, ch \in OtherLists, ac \in OtherLists}

RawDicts ==
    {[kind |-> "dict", data |-> WithoutEmpty(CreatorData(ev, bu, va, ch, ac))] :
        ev \in SeqsUpTo(RawEvents, MaxEvents),
        bu \in SeqsUpTo(RawBusinesses, MaxBusinesses),
        va \in ValueLists, ch \in OtherLists, ac \in OtherLists}

InitAnalyze ==
    /\ heap = <<>>
    /\ heap0 = <<>>
    /\ args = <<>>
    /\ op = "init"
    /\ sources = <<>>
    /\ result = NoneValue
    /\ raised = "none"
    /\ creator \in Models \cup RawDicts
    /\ now_year = CurrentYear
    /\ analysis = NoAnalysis
    /\ analysis_history = <<>>
    /\ last_active = "init"
    /\ files = NoFiles
    /\ calls = NoCalls

\* agent.analyze_creator(creator)
AnalyzeCreator ==
    /\ op = "init"
    /\ LET a == analyze_creator(creator, now_year)
       IN /\ analysis' = a
          /\ raised' = a.raised
          /\ analysis_history' = IF a.raised = "none"
                                 THEN Append(analysis_history, a)
                                 ELSE analysis_history
          /\ calls' = [made |-> calls.made + 1,
                       returned |-> calls.returned
                                       + (IF a.raised = "none" THEN 1 ELSE 0)]
    /\ last_active' = "analyze_creator"
    /\ op' = "analyze_creator"
    /\ UNCHANGED files
    /\ UNCHANGED <<heap, heap0, args, sources, result, creator, now_year>>

NextAnalyze == AnalyzeCreator

SpecAnalyze == InitAnalyze /\ [][NextAnalyze]_vars

(***************************************************************************)
(* Properties of the merge engine.                                         *)
(***************************************************************************)
Merged == op = "merge_content_creator_info"
Base0 == Val(heap0, args[1])
Update0 == Val(heap0, args[2])
Result1 == Val(heap, result)
EmptyDict == DMap(EmptyMap)
One(k, t) == DMap([kk \in {k} |-> t])
ListOf(l) == LMap([i \in DOMAIN l |-> SMap(l[i])])
BothDicts(b, u) == b.t = "d" /\ u.t = "d"
BothLists(b, u) == b.t = "l" /\ u.t = "l"

\* C1: merge_content_creator_info(base, update) leaves base and update, at every
\* nesting depth, equal to their values before the call.
C1_InputsUnchanged ==
    Merged => \A i \in 1..2 : Val(heap, args[i]) = Val(heap0, args[i])

\* C2: after merge_data_sources(s1, ..., sn), n >= 1, returns, every source is
\* equal to its value before the call.
C2_SourcesUnchanged ==
    (op = "merge_data_sources" /\ raised = "none" /\ Len(sources) >= 1)
        => \A i \in 1..Len(sources) :
              Val(heap, args[sources[i]]) = Val(heap0, args[sources[i]])

\* C3 as stated: for any structure X (mapping, sequence or scalar),
\* merge({}, X) equals X and merge(X, {}) equals X.
C3_EmptyIsIdentity ==
    Merged =>
        /\ Base0 = EmptyDict => (raised = "none" /\ Result1 = Update0)
        /\ Update0 = EmptyDict => (raised = "none" /\ Result1 = Base0)

\* C3 as amended: merge({}, X) equals X for any structure X, and merge(X, {})
\* equals X for any mapping X.
C3_EmptyIsIdentityOfMappings ==
    Merged =>
        /\ Base0 = EmptyDict => (raised = "none" /\ Result1 = Update0)
        /\ (Update0 = EmptyDict /\ Base0.t = "d")
              => (raised = "none" /\ Result1 = Base0)

\* merge(X, {}) for a mapping X that holds a nested mapping has returned
C3_Witness ==
    /\ Merged
    /\ Update0 = EmptyDict
    /\ Base0 = One("x", One("y", SMap(1)))
    /\ Result1 = Base0

RECURSIVE SeqsConcatenated(_, _, _)
SeqsConcatenated(b, u, r) ==
    /\ r.t = "d"
    /\ \A k \in DOMAIN b.m \cap DOMAIN u.m :
          /\ k \in DOMAIN r.m
          /\ BothLists(b.m[k], u.m[k])
                => (r.m[k].t = "l" /\ r.m[k].e = b.m[k].e \o u.m[k].e)
          /\ BothDicts(b.m[k], u.m[k])
                => SeqsConcatenated(b.m[k], u.m[k], r.m[k])

\* C4: when base and update both hold a sequence at the same key, at any nesting
\* depth, the merged value at that key is the elements of base followed by the
\* elements of update, in order and with duplicates kept.
C4_SequencesConcatenated ==
    (Merged /\ BothDicts(Base0, Update0))
        => (raised = "none" /\ SeqsConcatenated(Base0, Update0, Result1))

\* two sequences under the same nested key have been merged
C4_Witness ==
    /\ Merged
    /\ Base0 = One("x", One("y", ListOf(<<2>>)))
    /\ Update0 = One("x", One("y", ListOf(<<1>>)))
    /\ Result1 = One("x", One("y", ListOf(<<2, 1>>)))

\* C5: for mapping-only structures a, b, c whose key sets are pairwise disjoint,
\* merge(merge(a, b), c) equals merge(a, merge(b, c)).
C5_AssociativeOnDisjointKeys ==
    (op = "right"
        /\ PairwiseDisjoint(Val(heap0, args[1]), Val(heap0, args[2]), Val(heap0, args[3])))
        => (raised = "none" /\ Val(heap, args[4]) = Val(heap, result))

\* three non-empty mappings have been merged both ways
C5_Witness ==
    /\ op = "right"
    /\ raised = "none"
    /\ \A i \in 1..3 : Val(heap0, args[i]) # EmptyDict
    /\ Cardinality(DOMAIN Val(heap, result).m) = 3

RECURSIVE UpdateWinsAt(_, _, _)
UpdateWinsAt(b, u, r) ==
    /\ r.t = "d"
    /\ \A k \in DOMAIN b.m \cap DOMAIN u.m :
          /\ k \in DOMAIN r.m
          /\ (~BothDicts(b.m[k], u.m[k]) /\ ~BothLists(b.m[k], u.m[k]))
                => r.m[k] = u.m[k]
          /\ BothDicts(b.m[k], u.m[k])
                => UpdateWinsAt(b.m[k], u.m[k], r.m[k])

\* C6: for every key present in both base and update whose two values are not
\* both mappings and not both sequences, the merged value at that key is exactly
\* update's value.
C6_UpdateWinsOnMismatch ==
    (Merged /\ BothDicts(Base0, Update0))
        => (raised = "none" /\ UpdateWinsAt(Base0, Update0, Result1))

\* a mapping under a key has been overwritten by a sequence under the same key
C6_Witness ==
    /\ Merged
    /\ Base0 = One("x", One("y", SMap(1)))
    /\ Update0 = One("x", ListOf(<<2>>))
    /\ Result1 = Update0

(***************************************************************************)
(* Properties of the analysis.                                             *)
(***************************************************************************)
Analyzed == op = "analyze_creator"
Events == Get(creator.data, "life_events", <<>>)
Businesses == Get(creator.data, "businesses", <<>>)
AnalysisKeys == {"basic_stats", "business_analysis", "values_assessment",
                 "timeline_analysis"}
\* the least year of the events, an event without a year counting as year 0
MinYear(s) ==
    CHOOSE y \in {Get(s[i], "year", 0) : i \in 1..Len(s)} :
        \A i \in 1..Len(s) : y <= Get(s[i], "year", 0)
NumberWithStatus(s, status) ==
    Cardinality({i \in 1..Len(s) : Get(s[i], "status", "active") = status})

\* C7: analyze_creator never raises for a creator record that passes validation,
\* and returns a result holding basic_stats, business_analysis, values_assessment
\* and timeline_analysis.
C7_ValidRecordNeverRaises ==
    (Analyzed /\ ValidCreator(creator, now_year))
        => (raised = "none" /\ AnalysisKeys \subseteq DOMAIN analysis)

\* C8: when the earliest life event is dated the current year, the timeline
\* analysis does not divide by zero and reports milestone_frequency equal to the
\* number of life events.
C8_FrequencyAtCurrentYear ==
    (Analyzed /\ ValidCreator(creator, now_year) /\ Events # <<>>
        /\ MinYear(Events) = now_year)
        => /\ raised = "none"
           /\ FracEq(analysis.timeline_analysis.milestone_frequency,
                     Frac(Len(Events), 1))

\* C9: for every non-empty list of life events, in any order, career_start is the
\* least year of the events, an event without a year counting as year 0; for an
\* empty list career_start is null and milestone_frequency is 0.
C9_CareerStartIsMinimum ==
    Analyzed =>
        /\ raised = "none"
        /\ analysis.timeline_analysis.career_start =
              (IF Events # <<>> THEN <<MinYear(Events)>> ELSE <<>>)
        /\ Events = <<>>
              => FracEq(analysis.timeline_analysis.milestone_frequency, Frac(0, 1))

\* C10: for a creator record built from validated businesses, active_businesses
\* is the number of businesses whose status is "active", and total_businesses is
\* the length of the business list.
C10_ActiveBusinessesCounted ==
    (Analyzed /\ ValidCreator(creator, now_year) /\ raised = "none")
        => /\ analysis.business_analysis.active_businesses =
                 NumberWithStatus(Businesses, "active")
           /\ analysis.business_analysis.total_businesses = Len(Businesses)

(***************************************************************************)
(* utils.py: save_output_to_markdown.  A line of the document is a record: *)
(* a heading with its level (the number of # marks), a bullet, or a        *)
(* **Key:** value pair.                                                    *)
(***************************************************************************)
\* key.title()
Title(key) ==
    CASE key = "x" -> "X"
      [] key = "y" -> "Y"
      [] key = "z" -> "Z"
      [] key = "a_b" -> "A_B"
      [] OTHER -> key
\* .replace('_', ' ')
Spaced(text) == IF text = "A_B" THEN "A B" ELSE text

ReportTitle == [kind |-> "heading", level |-> 1, text |-> "Content Creator Analysis Report",
                value |-> SMap(0)]
Heading(level, key) ==
    [kind |-> "heading", level |-> level, text |-> Spaced(Title(key)), value |-> SMap(0)]
Bullet(h, item) == [kind |-> "bullet", level |-> 0, text |-> "", value |-> Val(h, item)]
Pair(h, key, value) ==
    [kind |-> "pair", level |-> 0, text |-> Title(key), value |-> Val(h, value)]

\* a variant that passes level on unchanged
SameLevel(level) == level
\* level + 1
NextLevel(level) == level + 1

RECURSIVE process_section(_, _, _, _), SectionItems(_, _, _, _), SectionList(_, _, _, _)
\* for k, v in value.items(): process_section(k, v, level + 1), from item i on
SectionItems(h, a, i, level) ==
    IF i > Len(h[a].keys) THEN <<>>
    ELSE process_section(h, h[a].keys[i], h[a].val[h[a].keys[i]], NextLevel(level))
            \o SectionItems(h, a, i + 1, level)
\* for item in value: from item i on
SectionList(h, a, i, level) ==
    IF i > Len(h[a].elems) THEN <<>>
    ELSE (IF IsDict(h, h[a].elems[i])
          THEN process_section(h, "", h[a].elems[i], NextLevel(level))
          ELSE <<Bullet(h, h[a].elems[i])>>)
            \o SectionList(h, a, i + 1, level)
process_section(h, key, value, level) ==
    IF IsDict(h, value) THEN <<Heading(level, key)>> \o SectionItems(h, value.v, 1, level)
    ELSE IF IsList(h, value) THEN <<Heading(level, key)>> \o SectionList(h, value.v, 1, level)
    ELSE <<Pair(h, key, value)>>

\* content: the title, then process_section(section, details) for every item of
\* data, at the default level 2
RECURSIVE TopSections(_, _, _)
TopSections(h, a, i) ==
    IF i > Len(h[a].keys) THEN <<>>
    ELSE process_section(h, h[a].keys[i], h[a].val[h[a].keys[i]], 2)
            \o TopSections(h, a, i + 1)
Content(h, data) == <<ReportTitle>> \o TopSections(h, data.v, 1)

\* a file name: its directory part ("" when it has none), stem and extension
Path(dir, stem, ext) == [dir |-> dir, stem |-> stem, ext |-> ext, abs |-> FALSE]
NoFilename == Path("", "", "")
\* os.path.abspath
AbsPath(p) == [p EXCEPT !.abs = TRUE]
\* open(filename, "w") and the lines written
WriteFile(fs, p, lines) == [q \in DOMAIN fs \cup {p} |-> IF q = p THEN lines ELSE fs[q]]
\* os.makedirs(d, exist_ok=True) raises FileNotFoundError for the empty name
MakedirsRaises(d) == d = ""

save_output_to_markdown(h, fs, data, filename) ==
    LET name == IF filename = NoFilename THEN Path("reports", "creator_report", "md")
                ELSE filename
    IN IF MakedirsRaises(name.dir) \/ ~IsDict(h, data)
       THEN [raised |-> "RuntimeError", files |-> fs, path |-> NoFilename]
       ELSE [raised |-> "none", files |-> WriteFile(fs, name, Content(h, data)),
             path |-> AbsPath(name)]

(***************************************************************************)
(* agent.py: generate_report                                               *)
(***************************************************************************)
\* the names agent.py imports (lines 3-17)
AgentImports == {"os", "datetime", "Dict", "Any", "Optional", "BaseModel", "Field",
                 "ContentCreatorInfo", "ValueObject", "ChallengeObject",
                 "AchievementObject", "LifeEventObject", "BusinessObject",
                 "save_output_to_markdown", "merge_content_creator_info", "ensure_dict"}
JsonLine(h, data) == [kind |-> "json", level |-> 0, text |-> "", value |-> Val(h, data)]

generate_report(h, fs, analysis_arg, format) ==
    LET filename == Path("", "creator_report", format)
    IN IF format = "markdown"
       THEN LET r == save_output_to_markdown(h, fs, analysis_arg, filename)
            IN IF r.raised # "none"
               THEN [raised |-> r.raised, files |-> r.files, path |-> NoFilename]
               ELSE [raised |-> "none", files |-> r.files, path |-> AbsPath(filename)]
       ELSE IF format = "json"
       THEN IF "json" \notin AgentImports
            THEN [raised |-> "NameError", files |-> WriteFile(fs, filename, <<>>),
                  path |-> NoFilename]
            ELSE [raised |-> "none",
                  files |-> WriteFile(fs, filename, <<JsonLine(h, analysis_arg)>>),
                  path |-> AbsPath(filename)]
       ELSE [raised |-> "ValueError", files |-> fs, path |-> NoFilename]

(***************************************************************************)
(* The structures handed to the report renderer: scalars, dicts and lists  *)
(* of structures (a list may hold dicts and lists), by number of nodes.    *)
(***************************************************************************)
MaxRenderSize == 4
RenderKeys == {"x", "a_b"}

RECURSIVE RenderSize(_), SumRenderSizes(_, _)
RenderSize(t) ==
    IF t.t = "d" THEN 1 + SumRenderSizes(t.m, DOMAIN t.m)
    ELSE IF t.t = "l" THEN 1 + SumRenderSizes(t.e, DOMAIN t.e)
    ELSE 1
SumRenderSizes(f, D) ==
    IF D = {} THEN 0
    ELSE LET k == CHOOSE k \in D : TRUE IN RenderSize(f[k]) + SumRenderSizes(f, D \ {k})

RECURSIVE RenderTreesUpTo(_)
RenderTreesUpTo(n) ==
    IF n = 0 THEN {}
    ELSE IF n = 1 THEN {SMap(v) : v \in Scalars} \cup {DMap(EmptyMap), LMap(<<>>)}
    ELSE LET T == RenderTreesUpTo(n - 1)
             F == UNION {[D -> T] : D \in SUBSET RenderKeys \ {{}}}
             L == UNION {[1..k -> T] : k \in 1..2}
         IN T \cup {DMap(m) : m \in {f \in F : 1 + SumRenderSizes(f, DOMAIN f) <= n}}
              \cup {LMap(e) : e \in {f \in L : 1 + SumRenderSizes(f, DOMAIN f) <= n}}

\* the same objects, every dict listing its keys in the opposite order
RECURSIVE Reverse(_)
Reverse(q) == IF q = <<>> THEN <<>> ELSE Append(Reverse(Tail(q)), Head(q))
ReversedKeys(h) == [a \in DOMAIN h |-> [h[a] EXCEPT !.keys = Reverse(h[a].keys)]]

Formats == {"markdown", "json", "html", "md"}
Filenames == {NoFilename, Path("reports", "report", "md"), Path("", "report", "md")}

InitReport ==
    /\ \E t \in {d \in RenderTreesUpTo(MaxRenderSize) : d.t = "d"}, rev \in BOOLEAN :
          LET r == Build(<<>>, t)
          IN /\ heap = IF rev THEN ReversedKeys(r.heap) ELSE r.heap
             /\ args = <<r.value>>
    /\ heap0 = heap
    /\ op = "init"
    /\ sources = <<>>
    /\ result = NoneValue
    /\ raised = "none"
    /\ AgentInit

\* agent.generate_report(args[1], format)
GenerateReport ==
    /\ op = "init"
    /\ \E format \in Formats :
          LET r == generate_report(heap, files, args[1], format)
          IN /\ files' = r.files
             /\ raised' = r.raised
             /\ result' = [t |-> "p", v |-> r.path]
             /\ args' = <<args[1], format>>
    /\ last_active' = "generate_report"
    /\ op' = "generate_report"
    /\ heap0' = heap
    /\ calls' = [calls EXCEPT !.made = @ + 1]
    /\ UNCHANGED <<heap, sources, creator, now_year, analysis, analysis_history>>

\* save_output_to_markdown(args[1], filename)
SaveOutputToMarkdown ==
    /\ op = "init"
    /\ \E filename \in Filenames :
          LET r == save_output_to_markdown(heap, files, args[1], filename)
          IN /\ files' = r.files
             /\ raised' = r.raised
             /\ result' = [t |-> "p", v |-> r.path]
             /\ args' = <<args[1], filename>>
    /\ op' = "save_output_to_markdown"
    /\ heap0' = heap
    /\ UNCHANGED <<heap, sources, creator, now_year, analysis, analysis_history,
                   last_active, calls>>

NextReport == GenerateReport \/ SaveOutputToMarkdown

SpecReport == InitReport /\ [][NextReport]_vars

(***************************************************************************)
(* Properties of the report.                                               *)
(***************************************************************************)
Supported == {"markdown", "json"}

\* C11: generate_report(analysis, format) raises the unsupported-format error
\* exactly when format is neither "markdown" nor "json"; for the two supported
\* formats it raises no error and returns the path of the generated report.
C11_OnlyUnsupportedFormatRaises ==
    op = "generate_report" =>
        /\ raised = "ValueError" <=> args[2] \notin Supported
        /\ args[2] \in Supported
              => /\ raised = "none"
                 /\ result.v = AbsPath(Path("", "creator_report", args[2]))
                 /\ Path("", "creator_report", args[2]) \in DOMAIN files

Saved == op = "save_output_to_markdown" /\ raised = "none"
\* the lines of the document written by the last call, after its title
Document ==
    LET name == IF args[2] = NoFilename THEN Path("reports", "creator_report", "md")
                ELSE args[2]
    IN Tail(files[name])

\* The entries of a structure in the order of its keys and elements, each with
\* the number of mappings and sequences that enclose it below the top mapping.
RECURSIVE Outline(_, _, _, _), OutlineItems(_, _, _, _), OutlineList(_, _, _, _)
Outline(h, key, value, depth) ==
    IF IsDict(h, value)
    THEN <<[kind |-> "heading", key |-> key, depth |-> depth, value |-> SMap(0)]>>
            \o OutlineItems(h, value.v, 1, depth + 1)
    ELSE IF IsList(h, value)
    THEN <<[kind |-> "heading", key |-> key, depth |-> depth, value |-> SMap(0)]>>
            \o OutlineList(h, value.v, 1, depth + 1)
    ELSE <<[kind |-> "pair", key |-> key, depth |-> depth, value |-> Val(h, value)]>>
OutlineItems(h, a, i, depth) ==
    IF i > Len(h[a].keys) THEN <<>>
    ELSE Outline(h, h[a].keys[i], h[a].val[h[a].keys[i]], depth)
            \o OutlineItems(h, a, i + 1, depth)
OutlineList(h, a, i, depth) ==
    IF i > Len(h[a].elems) THEN <<>>
    ELSE (IF IsDict(h, h[a].elems[i])
          THEN Outline(h, "", h[a].elems[i], depth)
          ELSE <<[kind |-> "bullet", key |-> "", depth |-> depth,
                  value |-> Val(h, h[a].elems[i])]>>)
            \o OutlineList(h, a, i + 1, depth)

\* C12: the heading level grows by exactly one per nesting level: a key of the
\* top-level mapping whose value is a mapping or sequence gets a heading of level
\* 2, a key nested d levels deeper gets level 2 + d, a mapping item of a sequence
\* gets an anonymous heading one level below the sequence's heading, and headings
\* and lines appear in the input's key and element order.
C12_HeadingLevelFollowsNesting ==
    Saved =>
        LET outline == OutlineItems(heap0, args[1].v, 1, 0)
        IN /\ Len(Document) = Len(outline)
           /\ \A i \in 1..Len(outline) :
                 /\ Document[i].kind = outline[i].kind
                 /\ Document[i].value = outline[i].value
                 /\ outline[i].kind = "heading"
                       => /\ Document[i].level = 2 + outline[i].depth
                          /\ Document[i].text = Spaced(Title(outline[i].key))
                 /\ outline[i].kind = "pair" => Document[i].text = Title(outline[i].key)

\* a document with a sequence under a top-level key, a mapping item in it and a
\* mapping under a key of that item has been written
C12_Witness ==
    /\ Saved
    /\ Val(heap0, args[1]) = One("x", LMap(<<One("a_b", EmptyDict)>>))
    /\ Document = <<Heading(2, "x"), Heading(3, ""), Heading(4, "a_b")>>
    /\ Document[3].text = "A B"

(***************************************************************************)
(* A session of one ContentAnalysisAgent: the caller holds two creator     *)
(* data dictionaries (args) and makes up to MaxCalls calls of              *)
(* analyze_creator, merge_data_sources and generate_report, in any order.  *)
(***************************************************************************)
MaxCalls == 2

\* the creator data dictionaries of a session: mappings over one key
SessionSources == {t \in TreesUpTo(MaxSize, FALSE, {"x"}) : t.t = "d"}

\* the records analysed in a session: validated or raw, with at most one event
SessionCreators ==
    {[kind |-> "model", data |-> CreatorData(ev, <<>>, va, <<>>, <<>>)] :
        ev \in SeqsUpTo(ValidEvents, 1), va \in {<<>>, <<[name |-> "A"]>>}}
    \cup {[kind |-> "dict", data |-> WithoutEmpty(CreatorData(ev, <<>>, va, <<>>, <<>>))] :
        ev \in SeqsUpTo(RawEvents, 1), va \in {<<>>, <<[name |-> "A"]>>}}

InitAgent ==
    /\ \E ta \in SessionSources, tb \in SessionSources :
          LET r == BuildAll(<<>>, <<ta, tb>>, 1, <<>>)
          IN heap = r.heap /\ args = r.values
    /\ heap0 = heap
    /\ op = "init"
    /\ sources = <<>>
    /\ result = NoneValue
    /\ raised = "none"
    /\ creator = NoCreator
    /\ now_year = CurrentYear
    /\ analysis = NoAnalysis
    /\ analysis_history = <<>>
    /\ last_active = "init"
    /\ files = NoFiles
    /\ calls = NoCalls

\* agent.analyze_creator(c)
AgentAnalyzeCreator ==
    /\ calls.made < MaxCalls
    /\ \E c \in SessionCreators :
          LET a == analyze_creator(c, now_year)
          IN /\ creator' = c
             /\ analysis' = a
             /\ raised' = a.raised
             /\ analysis_history' = IF a.raised = "none"
                                    THEN Append(analysis_history, a)
                                    ELSE analysis_history
             /\ calls' = [made |-> calls.made + 1,
                          returned |-> calls.returned
                                          + (IF a.raised = "none" THEN 1 ELSE 0)]
    /\ last_active' = "analyze_creator"
    /\ op' = "analyze_creator"
    /\ heap0' = heap
    /\ UNCHANGED <<heap, args, sources, result, now_year, files>>

\* agent.merge_data_sources(*[args[i] for i in srcs])
AgentMergeDataSources ==
    /\ calls.made < MaxCalls
    /\ \E srcs \in SourceLists :
          LET r == merge_data_sources(heap, [i \in 1..Len(srcs) |-> args[srcs[i]]])
          IN /\ heap' = r.heap
             /\ result' = r.result
             /\ raised' = r.raised
             /\ sources' = srcs
    /\ heap0' = heap
    /\ op' = "merge_data_sources"
    /\ last_active' = "merge_data_sources"
    /\ calls' = [calls EXCEPT !.made = @ + 1]
    /\ UNCHANGED <<args, creator, now_year, analysis, analysis_history, files>>

\* agent.generate_report(args[1], format)
AgentGenerateReport ==
    /\ calls.made < MaxCalls
    /\ \E format \in Formats :
          LET r == generate_report(heap, files, args[1], format)
          IN /\ files' = r.files
             /\ raised' = r.raised
             /\ result' = [t |-> "p", v |-> r.path]
    /\ last_active' = "generate_report"
    /\ op' = "generate_report"
    /\ heap0' = heap
    /\ calls' = [calls EXCEPT !.made = @ + 1]
    /\ UNCHANGED <<heap, args, sources, creator, now_year, analysis, analysis_history>>

NextAgent == AgentAnalyzeCreator \/ AgentMergeDataSources \/ AgentGenerateReport

SpecAgent == InitAgent /\ [][NextAgent]_vars

(***************************************************************************)
(* Properties of a session.                                                *)
(***************************************************************************)
\* a call: analysis_history has one entry per analyze_creator call that
\* returned, the returned analysis is appended at the end, and every other call
\* leaves the history as it was
HistoryFollowsCalls ==
    /\ Len(analysis_history') = calls'.returned
    /\ analysis_history' =
          IF op' = "analyze_creator" /\ raised' = "none"
          THEN Append(analysis_history, analysis')
          ELSE analysis_history

\* a call: the creator data dictionaries the caller holds have the values they
\* had before the call
RecordsKept ==
    /\ args' = args
    /\ \A i \in 1..Len(args) : Val(heap', args[i]) = Val(heap, args[i])

HistoryAlwaysFollowsCalls == [][HistoryFollowsCalls]_vars

\* two analyses have returned in one session and both are in the history, in
\* the order of the calls
TwoAnalysesReturned ==
    /\ calls.returned = 2
    /\ Len(analysis_history) = 2
    /\ analysis_history[1] # analysis_history[2]

\* C13: after any sequence of agent operations the length of analysis_history
\* equals the number of analyze_creator calls that returned a result: each
\* successful analyze_creator appends exactly one entry (the returned analysis)
\* at the end, a call that raises appends nothing, merge_data_sources and
\* generate_report leave analysis_history unchanged, and no operation modifies
\* the input creator record.
C13_HistoryCountsReturnedAnalyses == [][HistoryFollowsCalls /\ RecordsKept]_vars

====
